---- MODULE Spec2Model ----
(***************************************************************************)
(* libvscode-diff, diff_api.c / diff_api.h: the version accessor           *)
(*     const char *diff_api_get_version(void) { return "0.3.0"; }          *)
(* called by any number of unsynchronised FFI callers.  The string literal *)
(* lives in static storage; the function returns its address; a caller     *)
(* reads the bytes up to the terminator through the returned pointer.      *)
(***************************************************************************)
EXTENDS Integers, Sequences, FiniteSets, TLC

\* ---- bounds -------------------------------------------------------------
NThreads == 3
MaxCalls == 2

Threads == 1..NThreads

\* ---- the program's constants --------------------------------------------
\* the null pointer
NULL == 0
\* the terminator the compiler appends to a string literal
NUL == 0
\* the address of the first byte of the literal in static storage
LitAddr == 1

\* a mis-typed literal, "0.3.1"
StringLiteral_patch1 == <<48, 46, 51, 46, 49>>
\* a two-field literal, "0.3"
StringLiteral_short == <<48, 46, 51>>
\* the characters of the literal "0.3.0" ('0' = 48, '.' = 46, '3' = 51)
StringLiteral == <<48, 46, 51, 46, 48>>

\* the literal as laid out in static storage: its characters, then NUL
Rodata == StringLiteral \o <<NUL>>

VARIABLES
    mem,     \* static storage: address -> byte
    heap,    \* blocks allocated with malloc
    log,     \* what the library has written to stdout/stderr
    writes,  \* writes[t]: addresses thread t has stored to
    reads,   \* reads[t]: addresses thread t has loaded from
    pc,      \* pc[t]: "idle", "in_call" (inside the function), "returned"
    ret,     \* ret[t]: the pointer the last call of t returned
    got,     \* got[t]: the string t read through the last returned pointer
    held,    \* held[t]: the pointer t kept from its first call
    seen,    \* every string any caller has read so far
    ncalls   \* ncalls[t]: the calls t has started

vars == <<mem, heap, log, writes, reads, pc, ret, got, held, seen, ncalls>>

\* strlen: the number of bytes from p up to the terminator
RECURSIVE strlen(_, _)
strlen(m, p) ==
    IF p \notin DOMAIN m \/ m[p] = NUL THEN 0 ELSE 1 + strlen(m, p + 1)

\* the C string at p: the bytes from p up to the terminator
CStr(m, p) == [i \in 1..strlen(m, p) |-> m[p + i - 1]]

Init ==
    /\ mem = Rodata
    /\ heap = {}
    /\ log = <<>>
    /\ writes = [t \in Threads |-> {}]
    /\ reads = [t \in Threads |-> {}]
    /\ pc = [t \in Threads |-> "idle"]
    /\ ret = [t \in Threads |-> NULL]
    /\ got = [t \in Threads |-> <<>>]
    /\ held = [t \in Threads |-> NULL]
    /\ seen = {}
    /\ ncalls = [t \in Threads |-> 0]

\* a caller enters the function through the prototype of diff_api.h
Call(t) ==
    /\ pc[t] = "idle"
    /\ ncalls[t] < MaxCalls
    /\ pc' = [pc EXCEPT ![t] = "in_call"]
    /\ ncalls' = [ncalls EXCEPT ![t] = @ + 1]
    /\ UNCHANGED <<mem, heap, log, writes, reads, ret, got, held, seen>>

\* the version kept in a static buffer whose patch digit counts the calls
diff_api_get_version_counting(t) ==
    /\ pc[t] = "in_call"
    /\ mem' = [mem EXCEPT ![LitAddr + 4] =
                  IF \E u \in Threads : got[u] # <<>> THEN 49 ELSE @]
    /\ writes' = [writes EXCEPT ![t] = @ \cup {LitAddr + 4}]
    /\ ret' = [ret EXCEPT ![t] = LitAddr]
    /\ pc' = [pc EXCEPT ![t] = "returned"]
    /\ UNCHANGED <<heap, log, reads, got, held, seen, ncalls>>

\* the version copied into a shared static buffer on every call
diff_api_get_version_strcpy(t) ==
    /\ pc[t] = "in_call"
    /\ mem' = [a \in DOMAIN mem |-> Rodata[a]]
    /\ writes' = [writes EXCEPT ![t] = @ \cup DOMAIN mem]
    /\ ret' = [ret EXCEPT ![t] = LitAddr]
    /\ pc' = [pc EXCEPT ![t] = "returned"]
    /\ UNCHANGED <<heap, log, reads, got, held, seen, ncalls>>

\* the accessor with a debug trace left in
diff_api_get_version_logging(t) ==
    /\ pc[t] = "in_call"
    /\ log' = IF Len(log) < 1 THEN Append(log, "diff_api_get_version") ELSE log
    /\ ret' = [ret EXCEPT ![t] = LitAddr]
    /\ pc' = [pc EXCEPT ![t] = "returned"]
    /\ UNCHANGED <<mem, heap, writes, reads, got, held, seen, ncalls>>

\* the accessor with a failure path: NULL on a caller's second call
diff_api_get_version_null(t) ==
    /\ pc[t] = "in_call"
    /\ ret' = [ret EXCEPT ![t] = IF ncalls[t] > 1 THEN NULL ELSE LitAddr]
    /\ pc' = [pc EXCEPT ![t] = "returned"]
    /\ UNCHANGED <<mem, heap, log, writes, reads, got, held, seen, ncalls>>

\* the accessor allocating a block with malloc on every call
diff_api_get_version_malloc(t) ==
    /\ pc[t] = "in_call"
    /\ heap' = heap \cup {t}
    /\ ret' = [ret EXCEPT ![t] = LitAddr]
    /\ pc' = [pc EXCEPT ![t] = "returned"]
    /\ UNCHANGED <<mem, log, writes, reads, got, held, seen, ncalls>>

\* the accessor clearing its static buffer before a caller's second call
diff_api_get_version_clobber(t) ==
    /\ pc[t] = "in_call"
    /\ mem' = IF ncalls[t] > 1 THEN [mem EXCEPT ![LitAddr] = NUL] ELSE mem
    /\ writes' = [writes EXCEPT ![t] = IF ncalls[t] > 1 THEN @ \cup {LitAddr} ELSE @]
    /\ ret' = [ret EXCEPT ![t] = LitAddr]
    /\ pc' = [pc EXCEPT ![t] = "returned"]
    /\ UNCHANGED <<heap, log, reads, got, held, seen, ncalls>>

\* const char *diff_api_get_version(void) { return "0.3.0"; }
\* the whole body: the address of the literal becomes the return value;
\* nothing is loaded, stored, allocated, locked or printed
diff_api_get_version(t) ==
    /\ pc[t] = "in_call"
    /\ ret' = [ret EXCEPT ![t] = LitAddr]
    /\ pc' = [pc EXCEPT ![t] = "returned"]
    /\ UNCHANGED <<mem, heap, log, writes, reads, got, held, seen, ncalls>>

\* the caller reads the returned string (as ffi.string does) and keeps the
\* first pointer it was given; it never releases it
Read(t) ==
    /\ pc[t] = "returned"
    /\ ret[t] \in DOMAIN mem
    /\ got' = [got EXCEPT ![t] = CStr(mem, ret[t])]
    /\ seen' = seen \cup {CStr(mem, ret[t])}
    /\ reads' = [reads EXCEPT ![t] = @ \cup (ret[t]..(ret[t] + strlen(mem, ret[t])))]
    /\ held' = [held EXCEPT ![t] = IF @ = NULL THEN ret[t] ELSE @]
    /\ pc' = [pc EXCEPT ![t] = "idle"]
    /\ UNCHANGED <<mem, heap, log, writes, ret, ncalls>>

Next ==
    \E t \in Threads :
        \/ Call(t)
        \/ diff_api_get_version(t)
        \/ Read(t)

Spec == Init /\ [][Next]_vars

\* a thread inside the function keeps running: the scheduler does not
\* starve a runnable thread forever
FairSpec == Spec /\ \A t \in Threads : WF_vars(diff_api_get_version(t))

\* ---- what the claims compare against ------------------------------------
\* the five characters "0.3.0"
Expected == <<48, 46, 51, 46, 48>>

IsDigit(b) == b \in 48..57

\* MAJOR.MINOR.PATCH: digits and exactly two dots, no field empty
IsSemVer(s) ==
    LET dots == {i \in 1..Len(s) : s[i] = 46} IN
    /\ Len(s) > 0
    /\ Cardinality(dots) = 2
    /\ \A i \in (1..Len(s)) \ dots : IsDigit(s[i])
    /\ 1 \notin dots
    /\ Len(s) \notin dots
    /\ \A i \in dots : i + 1 \notin dots

\* two threads race when one has stored to an address the other touched
NoRace ==
    \A t, u \in Threads :
        t # u => writes[t] \cap (reads[u] \cup writes[u]) = {}

\* ---- C1 -----------------------------------------------------------------
\* C1: whatever calls came before, the pointer a call returns designates a
\* string that is exactly the five characters "0.3.0", then the terminator.
C1_ReturnsExactly030 ==
    \A t \in Threads :
        pc[t] = "returned" =>
            /\ CStr(mem, ret[t]) = Expected
            /\ mem[ret[t] + Len(Expected)] = NUL

\* a call that returns after other calls, by this and other callers
C1_Witness ==
    \E t, u \in Threads :
        /\ t # u
        /\ pc[t] = "returned"
        /\ ncalls[t] = 2
        /\ got[u] # <<>>

\* ---- C2 -----------------------------------------------------------------
\* C2: any two strings obtained from calls in one process lifetime are
\* byte-for-byte identical, whatever the history of calls.
C2_AllResultsIdentical ==
    /\ \A s1, s2 \in seen : s1 = s2
    /\ \A t \in Threads : got[t] # <<>> => got[t] \in seen

\* two callers have both read results, one of them twice
C2_Witness ==
    \E t, u \in Threads :
        /\ t # u
        /\ ncalls[t] = 2 /\ pc[t] = "idle"
        /\ got[u] # <<>>
        /\ seen # {}

\* ---- C3 -----------------------------------------------------------------
\* C3: with callers interleaved freely, each caller reads "0.3.0" and no
\* thread stores to an address another thread loads or stores.
C3_ConcurrentCallersSafe ==
    /\ \A t \in Threads : pc[t] = "idle" /\ ncalls[t] > 0 => got[t] = Expected
    /\ NoRace

\* two callers inside the function at once while a third has read the string
C3_Witness ==
    \E t, u, v \in Threads :
        /\ t # u /\ u # v /\ t # v
        /\ pc[t] = "in_call" /\ pc[u] = "in_call"
        /\ reads[v] # {} /\ got[v] = Expected

\* ---- C4 -----------------------------------------------------------------
\* C4: a step through the function leaves static storage, the heap and the
\* log as they were: it changes only the caller's own return value.
C4_CallChangesNoState ==
    [][(\E t \in Threads : pc[t] = "in_call" /\ pc'[t] = "returned")
          => UNCHANGED <<mem, heap, log, writes, reads, got, held, seen, ncalls>>]_vars

\* a call has returned with nothing written, allocated or logged
C4_Witness ==
    \E t \in Threads :
        /\ pc[t] = "returned"
        /\ \A u \in Threads \ {t} : pc[u] = "idle" /\ ncalls[u] = MaxCalls
        /\ mem = Rodata /\ heap = {} /\ log = <<>>

\* ---- C5 -----------------------------------------------------------------
\* C5: the call is total: a thread inside the function can always return,
\* and what it returns is a non-null pointer to a terminated string inside
\* static storage, never the error value NULL.
C5_TotalNonNull ==
    \A t \in Threads :
        /\ pc[t] = "in_call" => ENABLED diff_api_get_version(t)
        /\ pc[t] = "returned" =>
              /\ ret[t] # NULL
              /\ ret[t] \in DOMAIN mem
              /\ ret[t] + strlen(mem, ret[t]) \in DOMAIN mem

\* every caller holds a non-null return value at once, on a repeated call
C5_Witness ==
    \A t \in Threads : pc[t] = "returned" /\ ncalls[t] = 2 /\ ret[t] # NULL

\* ---- C6 -----------------------------------------------------------------
\* C6: every started call completes; a call never waits for another caller
\* (it is enabled whenever it has been entered) and nothing is allocated.
C6_CallCompletes ==
    /\ \A t \in Threads : (pc[t] = "in_call") ~> (pc[t] = "returned")
    /\ [](\A t \in Threads : pc[t] = "in_call" => ENABLED diff_api_get_version(t))
    /\ [](heap = {})

\* every caller has started and completed all its calls
C6_Witness ==
    \A t \in Threads :
        pc[t] = "idle" /\ ncalls[t] = MaxCalls /\ got[t] # <<>> /\ heap = {}

\* ---- C7 -----------------------------------------------------------------
\* C7: the string exists before the first call and static storage is never
\* changed; a pointer kept from an earlier call still designates "0.3.0"
\* after any later calls, and it was never heap storage to be released.
C7_HeldReferenceStaysValid ==
    /\ CStr(mem, LitAddr) = Expected
    /\ \A t \in Threads :
          held[t] # NULL =>
              /\ held[t] \in DOMAIN mem
              /\ held[t] \notin heap
              /\ CStr(mem, held[t]) = Expected

\* a caller still holds its first pointer after later calls by everyone
C7_Witness ==
    \E t \in Threads :
        /\ held[t] # NULL
        /\ \A u \in Threads : ncalls[u] = MaxCalls /\ pc[u] = "idle"

\* ---- C8 -----------------------------------------------------------------
\* C8: the returned string is non-empty and is three non-empty fields of
\* decimal digits separated by exactly two dots, with no other character.
C8_SemVerShape ==
    \A t \in Threads :
        /\ pc[t] = "returned" => IsSemVer(CStr(mem, ret[t]))
        /\ got[t] # <<>> => IsSemVer(got[t])

\* a caller has read a returned string of three one-digit fields
C8_Witness ==
    \E t \in Threads :
        /\ Len(got[t]) = 5
        /\ got[t][2] = 46 /\ got[t][4] = 46
        /\ pc[t] = "returned"
====
